---- MODULE Spec2Model ----
(***************************************************************************)
(* Complex logic combine: LogicalExpr (a polynomial over the Boolean ring, *)
(* kept as a set of 64-bit and-chain masks) and LogicalOpsHelper (the      *)
(* walker that turns an and/or/xor expression into a LogicalExpr and maps  *)
(* a trivial LogicalExpr back to a value).                                 *)
(*                                                                         *)
(* A 64-bit mask is the set of its set bit positions, a subset of 0..63,   *)
(* so that bit 62 and bit 63 keep their real positions.  A Value* is a     *)
(* natural number; 0 is the null pointer.  LogicalExpr.h holds the class   *)
(* twice; the first copy, with ExprZero, is the one ComplexLogicCombine    *)
(* compiles against and the one modelled here.                             *)
(***************************************************************************)
EXTENDS Integers, Sequences, FiniteSets, TLC

\* ------------------------------------------------------------ bounds
\* Opaque function arguments the host may use as operands.
NArgs == 1
\* And/or/xor instructions the host builds in the small specification.
MaxInsts == 3
\* Most masks one LogicalExpr object holds in the algebra specification.
MaxTerms == 2
\* Most leaves for which every truth assignment is enumerated.
MaxEnumLeaves == 3
\* The wide expressions have from LeafCeiling - WideSpan to LeafCeiling + WideSpan leaves.
WideSpan == 2

\* ------------------------------------------------------------ program constants
\* ExprAllOne = 0x8000000000000000
ExprAllOneBit == 63
\* ExprZero = 0x4000000000000000
ExprZeroBit == 62
\* assert(MaxLogicOpLeafsToScan <= 62)
LeafCeiling == 62
\* cl::init(8) of clc-max-depth
DefaultMaxDepth == 8
\* nullptr
Nullptr == 0
\* the ConstantInt zero and the ConstantInt all-ones of the expression's type
ConstZero == 1
ConstAllOnes == 2
\* the first Value that is neither null nor one of the two constants
FirstValue == ConstAllOnes + 1

ExprAllOne == {ExprAllOneBit}
ExprZero == {ExprZeroBit}

VARIABLES
    ir,                      \* the host IR: BinaryOperator -> [Opcode, Op0, Op1]
    MaxLogicOpLeafsToScan,   \* -clc-max-logic-leafs
    MaxDepthLogicOpsToScan,  \* -clc-max-depth
    LogicalOpNodes,          \* Value -> the Expr of its LogicalOpNode
    LeafSet,
    LeafValues,
    Root,                    \* argument of the latest simplify call on this helper
    NewRoot,                 \* what that call returned
    StartEmpty,              \* whether the three containers were empty when it began
    exprs                    \* three LogicalExpr objects (their AddChain)

vars == <<ir, MaxLogicOpLeafsToScan, MaxDepthLogicOpsToScan, LogicalOpNodes,
          LeafSet, LeafValues, Root, NewRoot, StartEmpty, exprs>>

\* ------------------------------------------------------------ LogicalExpr

\* if (!NewChain.insert(NewMask).second) NewChain.erase(NewMask);
InsertNeverErase(NewChain, NewMask) ==
    NewChain \cup {NewMask}

InsertOrErase(NewChain, NewMask) ==
    IF NewMask \in NewChain THEN NewChain \ {NewMask} ELSE NewChain \cup {NewMask}

\* if (NewMask != ExprAllOne && ((NewMask & ExprAllOne) != 0)) NewMask &= ~ExprAllOne;
ClearAllOneNever(NewMask) ==
    NewMask

ClearAllOne(NewMask) ==
    IF NewMask # ExprAllOne /\ (NewMask \cap ExprAllOne) # {}
    THEN NewMask \ ExprAllOne
    ELSE NewMask

\* The inner loop of operator*= for one LHSMask over the masks of RHS left to visit.
RECURSIVE MulInner(_, _, _)
MulInner(LHSMask, RHSChain, NewChain) ==
    IF RHSChain = {} THEN NewChain
    ELSE LET RHSMask == CHOOSE m \in RHSChain : TRUE
             Rest == RHSChain \ {RHSMask}
         IN IF (RHSMask \cap ExprZero) # {}
            THEN MulInner(LHSMask, Rest, NewChain)
            ELSE MulInner(LHSMask, Rest,
                          InsertOrErase(NewChain, ClearAllOne(LHSMask \cup RHSMask)))

\* The outer loop of operator*= over the masks of AddChain left to visit.
RECURSIVE MulOuter(_, _, _)
MulOuter(LHSChain, RHSChain, NewChain) ==
    IF LHSChain = {} THEN NewChain
    ELSE LET LHSMask == CHOOSE m \in LHSChain : TRUE
             Rest == LHSChain \ {LHSMask}
         IN IF (LHSMask \cap ExprZero) # {}
            THEN MulOuter(Rest, RHSChain, NewChain)
            ELSE MulOuter(Rest, RHSChain, MulInner(LHSMask, RHSChain, NewChain))

\* operator*= and operator*: the new AddChain
OpMul(a, b) ==
    MulOuter(a, b, {})

\* operator+= and operator+: every mask of RHS toggled in AddChain
RECURSIVE OpAdd(_, _)
OpAdd(a, b) ==
    IF b = {} THEN a
    ELSE LET RHSMask == CHOOSE m \in b : TRUE
             Toggled == IF RHSMask \in a THEN a \ {RHSMask} ELSE a \cup {RHSMask}
         IN OpAdd(Toggled, b \ {RHSMask})

OpAnd(a, b) == OpMul(a, b)

OpXor(a, b) == OpAdd(a, b)

OpOr(a, b) == OpAdd(OpAdd(OpMul(a, b), a), b)

OpNot(a) == OpAdd(a, {ExprAllOne})

\* ------------------------------------------------------------ the host IR

LogicOpcodes == {"And", "Or", "Xor"}

IsBinaryOperator(I, Val) == Val \in DOMAIN I

IsLogicOp(I, Val) == Val \in DOMAIN I /\ I[Val].Opcode \in LogicOpcodes

\* A value the walker cannot look into: neither of the two constants nor and/or/xor.
IsOpaque(I, Val) ==
    /\ Val \notin {Nullptr, ConstZero, ConstAllOnes}
    /\ ~IsLogicOp(I, Val)

\* ------------------------------------------------------------ LogicalOpsHelper

EmptyNodes == [v \in {} |-> {}]

EmptyHelper == [Nodes |-> EmptyNodes, LeafSet |-> {}, LeafValues |-> <<>>]

Failed(H) == [H |-> H, Ok |-> FALSE]

Found(H) == [H |-> H, Ok |-> TRUE]

PutNode(H, Val, Expr) ==
    [H EXCEPT !.Nodes = [v \in (DOMAIN H.Nodes) \cup {Val} |->
                            IF v = Val THEN Expr ELSE H.Nodes[v]]]

\* LeafSet.size() > MaxLogicOpLeafsToScan
LeafGuard(Size, MaxLeafs) ==
    Size > MaxLeafs

visitLeafNode(H, Val, Depth, MaxLeafs) ==
    IF Depth = 0 \/ LeafGuard(Cardinality(H.LeafSet), MaxLeafs)
    THEN Failed(H)
    ELSE LET Shifted == {Cardinality(H.LeafSet)}
             ExprVal == IF Val = ConstZero THEN ExprZero
                        ELSE IF Val = ConstAllOnes THEN ExprAllOne
                        ELSE Shifted
             Tabled == /\ ExprVal # ExprAllOne
                       /\ ExprVal # ExprZero
             Inserted == Tabled /\ Val \notin H.LeafSet
             H1 == [H EXCEPT !.LeafSet = IF Tabled THEN @ \cup {Val} ELSE @,
                             !.LeafValues = IF Inserted THEN Append(@, Val) ELSE @]
         IN Found(PutNode(H1, Val, {ExprVal}))

RECURSIVE getLogicalOpNode(_, _, _, _, _, _)

visitBinOp(I, H, BO, Depth, MaxLeafs, MaxDepth) ==
    IF I[BO].Opcode \notin LogicOpcodes
    THEN visitLeafNode(H, BO, Depth, MaxLeafs)
    ELSE LET LHS == getLogicalOpNode(I, H, I[BO].Op0, Depth + 1, MaxLeafs, MaxDepth)
         IN IF ~LHS.Ok THEN LHS
            ELSE LET RHS == getLogicalOpNode(I, LHS.H, I[BO].Op1, Depth + 1,
                                             MaxLeafs, MaxDepth)
                 IN IF ~RHS.Ok THEN RHS
                    ELSE LET L == RHS.H.Nodes[I[BO].Op0]
                             R == RHS.H.Nodes[I[BO].Op1]
                             Expr == IF I[BO].Opcode = "And" THEN OpAnd(L, R)
                                     ELSE IF I[BO].Opcode = "Or" THEN OpOr(L, R)
                                     ELSE OpXor(L, R)
                         IN Found(PutNode(RHS.H, BO, Expr))

getLogicalOpNode(I, H, Val, Depth, MaxLeafs, MaxDepth) ==
    IF Depth = MaxDepth THEN Failed(H)
    ELSE IF Val \notin DOMAIN H.Nodes
         THEN IF IsBinaryOperator(I, Val)
              THEN visitBinOp(I, H, Val, Depth, MaxLeafs, MaxDepth)
              ELSE visitLeafNode(H, Val, Depth, MaxLeafs)
         ELSE Found(H)

\* llvm::Log2_64 of a mask with one bit set
Log2_64(Mask) == CHOOSE b \in Mask : TRUE

logicalOpToValue(H, Val) ==
    LET Expr == H.Nodes[Val]
    IN IF Cardinality(Expr) = 0 THEN ConstZero
       ELSE IF Cardinality(Expr) = 1
            THEN LET ExprMask == CHOOSE m \in Expr : TRUE
                 IN IF ExprMask = ExprZero THEN ConstZero
                    ELSE IF ExprMask = ExprAllOne THEN ConstAllOnes
                    ELSE IF Cardinality(ExprMask) = 1
                         THEN H.LeafValues[Log2_64(ExprMask) + 1]
                         ELSE Nullptr
            ELSE Nullptr

\* simplify: the helper it leaves behind and the value it returns
simplify(I, H, R, MaxLeafs, MaxDepth) ==
    LET RootNode == getLogicalOpNode(I, H, R, 0, MaxLeafs, MaxDepth)
    IN IF ~RootNode.Ok THEN [H |-> RootNode.H, NewRoot |-> Nullptr]
       ELSE LET V == logicalOpToValue(RootNode.H, R)
            IN [H |-> RootNode.H, NewRoot |-> IF V = R THEN Nullptr ELSE V]

\* ------------------------------------------------------------ state machine

Helper == [Nodes |-> LogicalOpNodes, LeafSet |-> LeafSet, LeafValues |-> LeafValues]

HelperIsEmpty ==
    /\ DOMAIN LogicalOpNodes = {}
    /\ LeafSet = {}
    /\ LeafValues = <<>>

Args == FirstValue .. (FirstValue + NArgs - 1)

FirstInst == FirstValue + NArgs

Values(I) == {ConstZero, ConstAllOnes} \cup Args \cup DOMAIN I

NoExprs == [i \in 1..3 |-> {}]

NoInsts == [v \in {} |-> [Opcode |-> "And", Op0 |-> Nullptr, Op1 |-> Nullptr]]

NoCall ==
    /\ Root = Nullptr
    /\ NewRoot = Nullptr
    /\ StartEmpty = TRUE

FreshHelper ==
    /\ LogicalOpNodes = EmptyNodes
    /\ LeafSet = {}
    /\ LeafValues = <<>>

\* The small specification: the host builds an expression of at most MaxInsts
\* and/or/xor instructions over one argument and the two constants; helpers
\* simplify its instructions, one helper possibly several times.
Init ==
    /\ ir = NoInsts
    /\ MaxLogicOpLeafsToScan \in {0, 1}
    /\ MaxDepthLogicOpsToScan \in {3}
    /\ FreshHelper
    /\ NoCall
    /\ exprs = NoExprs

\* The host appends one and/or/xor instruction to the expression it is building,
\* before any helper looks at it: every instruction after the first takes the
\* one before it as an operand, and an instruction over two constants is never
\* built (the host folds it).
AddInst(Opcode, Op0, Op1) ==
    /\ Cardinality(DOMAIN ir) < MaxInsts
    /\ ~({Op0, Op1} \subseteq {ConstZero, ConstAllOnes})
    /\ HelperIsEmpty
    /\ Root = Nullptr
    /\ DOMAIN ir # {} => (FirstInst + Cardinality(DOMAIN ir) - 1) \in {Op0, Op1}
    /\ LET BO == FirstInst + Cardinality(DOMAIN ir)
       IN ir' = [v \in (DOMAIN ir) \cup {BO} |->
                    IF v = BO THEN [Opcode |-> Opcode, Op0 |-> Op0, Op1 |-> Op1]
                    ELSE ir[v]]
    /\ UNCHANGED <<MaxLogicOpLeafsToScan, MaxDepthLogicOpsToScan, LogicalOpNodes,
                   LeafSet, LeafValues, Root, NewRoot, StartEmpty, exprs>>

\* Value *LogicalOpsHelper::simplify(Value *Root)
Simplify(R) ==
    /\ MaxLogicOpLeafsToScan <= LeafCeiling
    /\ LET Res == simplify(ir, Helper, R, MaxLogicOpLeafsToScan, MaxDepthLogicOpsToScan)
       IN /\ LogicalOpNodes' = Res.H.Nodes
          /\ LeafSet' = Res.H.LeafSet
          /\ LeafValues' = Res.H.LeafValues
          /\ NewRoot' = Res.NewRoot
    /\ Root' = R
    /\ StartEmpty' = HelperIsEmpty
    /\ UNCHANGED <<ir, MaxLogicOpLeafsToScan, MaxDepthLogicOpsToScan, exprs>>

\* ~LogicalOpsHelper() { clear(); } followed by the construction of the next helper
clear ==
    /\ LogicalOpNodes' = EmptyNodes
    /\ LeafSet' = {}
    /\ LeafValues' = <<>>
    /\ Root' = Nullptr
    /\ NewRoot' = Nullptr
    /\ StartEmpty' = TRUE
    /\ UNCHANGED <<ir, MaxLogicOpLeafsToScan, MaxDepthLogicOpsToScan, exprs>>

Next ==
    \/ \E Opcode \in LogicOpcodes, Op0 \in Values(ir), Op1 \in Values(ir) :
          AddInst(Opcode, Op0, Op1)
    \/ \E R \in DOMAIN ir : Simplify(R)
    \/ clear

Spec == Init /\ [][Next]_vars

\* ------------------------------------------------------------ wide expressions

\* A balanced tree of one and/or/xor opcode over NLeaves distinct leaves, laid
\* out as a heap: the instruction at heap index j has the operands at 2j and
\* 2j+1, the leaves are the indices NLeaves..2*NLeaves-1.  A leaf is either a
\* function argument or a BinaryOperator that is not and/or/xor.
HeapValue(j) == FirstValue + j - 1

WideIR(NLeaves, Opcode, LeafIsBinOp) ==
    LET Inner == 1 .. (NLeaves - 1)
        Outer == IF LeafIsBinOp THEN NLeaves .. (2 * NLeaves - 1) ELSE {}
        Arg == HeapValue(2 * NLeaves)
    IN [v \in {HeapValue(j) : j \in Inner \cup Outer} |->
          LET j == v - FirstValue + 1
          IN IF j \in Inner
             THEN [Opcode |-> Opcode, Op0 |-> HeapValue(2 * j), Op1 |-> HeapValue(2 * j + 1)]
             ELSE [Opcode |-> "Add", Op0 |-> Arg, Op1 |-> Arg]]

WideLeafCounts == (LeafCeiling - WideSpan) .. (LeafCeiling + WideSpan)

InitWide ==
    /\ \E n \in WideLeafCounts, Opcode \in {"And", "Xor"}, LeafIsBinOp \in BOOLEAN :
          ir = WideIR(n, Opcode, LeafIsBinOp)
    /\ MaxLogicOpLeafsToScan \in {LeafCeiling - 1, LeafCeiling}
    /\ MaxDepthLogicOpsToScan = DefaultMaxDepth
    /\ FreshHelper
    /\ NoCall
    /\ exprs = NoExprs

\* Every value of the wide expression, the arguments among its leaves included.
WideValues(I) ==
    DOMAIN I \cup UNION {{I[v].Op0, I[v].Op1} : v \in {w \in DOMAIN I : I[w].Opcode # "Add"}}

NextWide ==
    \/ \E R \in WideValues(ir) : HelperIsEmpty /\ Root = Nullptr /\ Simplify(R)
    \/ clear

SpecWide == InitWide /\ [][NextWide]_vars

\* ------------------------------------------------------------ LogicalExpr objects

\* The masks the walker hands to LogicalExpr(uint64_t Mask) or that operator*=
\* builds from them: the bits 0..MaxLogicOpLeafsToScan and the two sentinels.
LeafBits == 0 .. MaxLogicOpLeafsToScan

CanonicalMasks == ((SUBSET LeafBits) \ {{}}) \cup {ExprAllOne, ExprZero}

InitAlg ==
    /\ ir = NoInsts
    /\ MaxLogicOpLeafsToScan \in {0, 1}
    /\ MaxDepthLogicOpsToScan = DefaultMaxDepth
    /\ FreshHelper
    /\ NoCall
    /\ exprs = NoExprs

AlgFrame ==
    UNCHANGED <<ir, MaxLogicOpLeafsToScan, MaxDepthLogicOpsToScan, LogicalOpNodes,
                LeafSet, LeafValues, Root, NewRoot, StartEmpty>>

\* LogicalExpr(uint64_t Mask)
Construct(i, Mask) ==
    /\ exprs' = [exprs EXCEPT ![i] = {Mask}]
    /\ AlgFrame

\* exprs[i] *= exprs[j]
MulAssign(i, j) ==
    /\ i # j
    /\ Cardinality(OpMul(exprs[i], exprs[j])) <= MaxTerms
    /\ exprs' = [exprs EXCEPT ![i] = OpMul(exprs[i], exprs[j])]
    /\ AlgFrame

\* exprs[i] += exprs[j]
AddAssign(i, j) ==
    /\ i # j
    /\ Cardinality(OpAdd(exprs[i], exprs[j])) <= MaxTerms
    /\ exprs' = [exprs EXCEPT ![i] = OpAdd(exprs[i], exprs[j])]
    /\ AlgFrame

\* exprs[i] = ~exprs[i]
NotAssign(i) ==
    /\ Cardinality(OpNot(exprs[i])) <= MaxTerms
    /\ exprs' = [exprs EXCEPT ![i] = OpNot(exprs[i])]
    /\ AlgFrame

NextAlg ==
    \/ \E i \in 1..3, Mask \in CanonicalMasks : Construct(i, Mask)
    \/ \E i \in 1..3, j \in 1..3 : MulAssign(i, j)
    \/ \E i \in 1..3, j \in 1..3 : AddAssign(i, j)
    \/ \E i \in 1..3 : NotAssign(i)

SpecAlg == InitAlg /\ [][NextAlg]_vars

\* ------------------------------------------------------------ what an expression means

\* The opaque values under Val.
RECURSIVE OpaqueLeaves(_, _)
OpaqueLeaves(I, Val) ==
    IF IsLogicOp(I, Val)
    THEN OpaqueLeaves(I, I[Val].Op0) \cup OpaqueLeaves(I, I[Val].Op1)
    ELSE IF IsOpaque(I, Val) THEN {Val} ELSE {}

\* The and/or/xor instructions at and under Val.
RECURSIVE LogicOpsUnder(_, _)
LogicOpsUnder(I, Val) ==
    IF IsLogicOp(I, Val)
    THEN {Val} \cup LogicOpsUnder(I, I[Val].Op0) \cup LogicOpsUnder(I, I[Val].Op1)
    ELSE {}

\* The greatest depth, counted from Val at 0, that an operand path through
\* and/or/xor instructions reaches.
RECURSIVE DeepestOperand(_, _)
DeepestOperand(I, Val) ==
    IF IsLogicOp(I, Val)
    THEN LET d0 == DeepestOperand(I, I[Val].Op0)
             d1 == DeepestOperand(I, I[Val].Op1)
         IN 1 + (IF d0 >= d1 THEN d0 ELSE d1)
    ELSE 0

\* The truth value of Val (in any one bit lane) when exactly the opaque values
\* in True are true.
RECURSIVE Eval(_, _, _)
Eval(I, Val, True) ==
    IF Val = ConstZero THEN FALSE
    ELSE IF Val = ConstAllOnes THEN TRUE
    ELSE IF IsLogicOp(I, Val)
         THEN LET x == Eval(I, I[Val].Op0, True)
                  y == Eval(I, I[Val].Op1, True)
              IN IF I[Val].Opcode = "And" THEN x /\ y
                 ELSE IF I[Val].Opcode = "Or" THEN x \/ y
                 ELSE x # y
         ELSE Val \in True

\* The truth assignments tried over a set of leaves: all of them for a small
\* set, otherwise those with at most one leaf true or at most one leaf false.
Assignments(L) ==
    IF Cardinality(L) <= MaxEnumLeaves
    THEN SUBSET L
    ELSE {L, {}} \cup {L \ {x} : x \in L} \cup {{x} : x \in L}

EquivalentTo(I, R, V) ==
    \A True \in Assignments(OpaqueLeaves(I, R) \cup OpaqueLeaves(I, V)) :
        Eval(I, R, True) = Eval(I, V, True)

\* The expression with the two operands of BO exchanged.
SwapOperands(I, BO) ==
    [I EXCEPT ![BO] = [Opcode |-> I[BO].Opcode, Op0 |-> I[BO].Op1, Op1 |-> I[BO].Op0]]

\* What simplify(R) returns on a helper just constructed.
FreshSimplify(I, R) ==
    simplify(I, EmptyHelper, R, MaxLogicOpLeafsToScan, MaxDepthLogicOpsToScan).NewRoot

\* The latest call was simplify(Root) on a helper whose containers were empty.
FreshCallDone ==
    /\ Root # Nullptr
    /\ StartEmpty
    /\ IsLogicOp(ir, Root)

\* ------------------------------------------------------------ claims

\* C1: whenever simplify(Root) on a fresh helper returns a replacement value
\* (constant 0, constant all-ones or a leaf), the replacement computes the same
\* Boolean function as Root under every assignment of truth values to the leaves.
C1_SimplifySound ==
    (FreshCallDone /\ NewRoot # Nullptr) => EquivalentTo(ir, Root, NewRoot)

\* A root whose deepest operand and whose leaves stay inside the two limits.
WithinBounds(I, R) ==
    /\ IsLogicOp(I, R)
    /\ DeepestOperand(I, R) < MaxDepthLogicOpsToScan
    /\ Cardinality(OpaqueLeaves(I, R)) <= MaxLogicOpLeafsToScan

\* The constants and leaves of R that R is logically equivalent to.
TrivialForms(I, R) ==
    {T \in {ConstZero, ConstAllOnes} \cup OpaqueLeaves(I, R) : EquivalentTo(I, R, T)}

\* C2: a root within the depth and leaf bounds that is logically equivalent to
\* a trivial form (constant 0, constant all-ones or one leaf) is replaced by
\* that trivial form, and so is every other such root equivalent to it.
C2_EquivalentRootsSameReplacement ==
    (FreshCallDone /\ WithinBounds(ir, Root)) =>
        \A T \in TrivialForms(ir, Root) :
            /\ NewRoot = T
            /\ \A R2 \in DOMAIN ir :
                  (WithinBounds(ir, R2) /\ EquivalentTo(ir, R2, T)) => FreshSimplify(ir, R2) = T

\* C3: whenever the builder succeeds for a root, the leaf table holds at most
\* MaxLeaves distinct opaque leaves.
C3_LeafBudget ==
    (Root # Nullptr /\ Root \in DOMAIN LogicalOpNodes) =>
        Len(LeafValues) <= MaxLogicOpLeafsToScan

\* C4: if an operand path from the root through and/or/xor operators reaches a
\* value at depth MaxDepth, simplify(root) returns "no change".
C4_DepthBudget ==
    (FreshCallDone /\ DeepestOperand(ir, Root) >= MaxDepthLogicOpsToScan) =>
        NewRoot = Nullptr

\* C5: at the start of every simplify call on a helper the node cache, the
\* leaf set and the leaf table are empty.
C5_RequestIsolation ==
    Root # Nullptr => StartEmpty

\* C6 as claimed: {AllOne} * p and p * {AllOne} both equal p, for every
\* LogicalExpr p over canonical masks, the singleton {ExprZero} included.
C6_MulIdentityAsClaimed ==
    \A i \in 1..3 :
        /\ OpMul({ExprAllOne}, exprs[i]) = exprs[i]
        /\ OpMul(exprs[i], {ExprAllOne}) = exprs[i]

\* p without its masks that carry the zero-sentinel bit.
WithoutZero(p) == {m \in p : (m \cap ExprZero) = {}}

\* C6 amended: {AllOne} * p and p * {AllOne} both equal p without its
\* zero-sentinel mask, hence p itself whenever p holds no zero-sentinel mask.
C6_MulIdentity ==
    \A i \in 1..3 :
        /\ OpMul({ExprAllOne}, exprs[i]) = WithoutZero(exprs[i])
        /\ OpMul(exprs[i], {ExprAllOne}) = WithoutZero(exprs[i])

\* C6 witness: object 3 holds the product of {AllOne} (object 1) and an object 2
\* made of the zero sentinel and a leaf mask.
C6_Witness ==
    /\ exprs[1] = {ExprAllOne}
    /\ ExprZero \in exprs[2]
    /\ Cardinality(exprs[2]) = 2
    /\ ExprAllOne \notin exprs[2]
    /\ exprs[3] = OpMul(exprs[1], exprs[2])
    /\ exprs[3] = exprs[2] \ {ExprZero}

\* C7: p * (q + r) and (p * q) + (p * r) are equal as sets of masks.
C7_Distributivity ==
    OpMul(exprs[1], OpAdd(exprs[2], exprs[3]))
        = OpAdd(OpMul(exprs[1], exprs[2]), OpMul(exprs[1], exprs[3]))

\* C7 witness: p has two masks, q and r share a mask that cancels in q + r, and
\* the product is not empty.
C7_Witness ==
    /\ Cardinality(exprs[1]) = 2
    /\ exprs[2] \cap exprs[3] # {}
    /\ exprs[2] # exprs[3]
    /\ OpMul(exprs[1], exprs[2]) # {}
    /\ OpMul(exprs[1], exprs[3]) # {}
    /\ OpMul(exprs[1], OpAdd(exprs[2], exprs[3])) # {}

\* C8: in every LogicalExpr of the node cache a mask with the zero-sentinel bit
\* occurs only as the sole mask {ExprZero} of the constant-zero leaf node.
C8_ZeroSentinelCanonical ==
    \A Val \in DOMAIN LogicalOpNodes :
        (\E m \in LogicalOpNodes[Val] : (m \cap ExprZero) # {}) =>
            (Val = ConstZero /\ LogicalOpNodes[Val] = {ExprZero})

\* C9: each opaque leaf node's LogicalExpr is one one-hot mask 1<<i with i < 62,
\* leaf table entry i is exactly that leaf, and each value appears in the leaf
\* table at most once (so distinct leaves have distinct bits).
C9_LeafBitCorrespondence ==
    /\ \A Val \in DOMAIN LogicalOpNodes :
          IsOpaque(ir, Val) =>
              \E i \in 0 .. (LeafCeiling - 1) :
                  /\ LogicalOpNodes[Val] = {{i}}
                  /\ i < Len(LeafValues)
                  /\ LeafValues[i + 1] = Val
    /\ \A i, j \in 1 .. Len(LeafValues) : LeafValues[i] = LeafValues[j] => i = j

\* C10: exchanging the two operands of any and/or/xor operator under the root
\* does not change what simplify returns on a fresh helper.
C10_OperandOrderIndependent ==
    FreshCallDone =>
        \A BO \in LogicOpsUnder(ir, Root) :
            FreshSimplify(SwapOperands(ir, BO), Root) = NewRoot

====
